---- MODULE Spec2Model ----
(***************************************************************************)
(* QuiverWallStreetBetsUniverseAlgorithm: an algorithm object whose three  *)
(* hooks (Initialize, UniverseSelection, OnSecuritiesChanged) are called   *)
(* by the host engine.  `self` is the algorithm object together with the   *)
(* host-side settings and log sink the hooks write through.                *)
(***************************************************************************)
EXTENDS Integers, Sequences, FiniteSets, TLC

VARIABLES self, status, last, pc, arg, frame, ret, logBy

vars == <<self, status, last, pc, arg, frame, ret, logBy>>

(* ------------------------------ bounds --------------------------------- *)

\* longest batch handed to UniverseSelection
MaxBatch == 3
\* the log sink is capped: a hook is not called when its lines would not fit
MaxLog == 3
\* most batches in one History response
MaxHistory == 2
\* longest batch handed to an invocation of the step-level specification
MaxStepBatch == 2

(* --------------------------- program constants ------------------------- *)

StartingCash == 100000
ExpectedHistoryCount == 1
MinHistoricalRecords == 100
MentionsThreshold == 100
RankThreshold == 100

NoError == "none"

(* ------------------------------- inputs -------------------------------- *)

Symbols == {"GME", "AMC"}
MentionsValues == {100, 101}
RankValues == {99, 100}
SentimentValues == {-5}

\* one datum of the universe data: Symbol, Mentions, Rank, Sentiment
Datum == [Symbol : Symbols, Mentions : MentionsValues,
          Rank : RankValues, Sentiment : SentimentValues]

SeqsUpTo(S, n) == UNION {[1..k -> S] : k \in 0..n}

Batches == SeqsUpTo(Datum, MaxBatch)

\* a change-set as the host hands it over: two lists of symbols
SymbolLists == {<<>>, <<"GME">>, <<"AMC", "GME">>}
ChangeSets == {c \in [added : SymbolLists, removed : SymbolLists] :
                 \A i \in 1..Len(c.added) : \A j \in 1..Len(c.removed) :
                    c.added[i] # c.removed[j]}

\* a batch of a History response: n data of one day
HistoricalBatch(n) ==
    [i \in 1..n |-> [Symbol |-> "GME", Mentions |-> 101, Rank |-> 99, Sentiment |-> -5]]
HistoricalSizes == {0, 99, 100, 101}
Histories == SeqsUpTo({HistoricalBatch(n) : n \in HistoricalSizes}, MaxHistory)

(* ------------------------- the algorithm object ------------------------ *)

\* the object after construction, before the host calls Initialize
Constructed ==
    [Resolution |-> "unset", StartDate |-> <<>>, EndDate |-> <<>>, Cash |-> 0,
     Universes |-> <<>>, HistoryRequests |-> <<>>, log |-> <<>>]

\* self.Log(msg): one line appended to the host's log
Log(s, msg) == [s EXCEPT !.log = Append(@, msg)]

\* AddUniverse(QuiverWallStreetBetsUniverse, self.UniverseSelection)
QuiverUniverse == [type |-> "QuiverWallStreetBetsUniverse", selector |-> "UniverseSelection"]

\* lines 19-26: resolution, dates, cash, universe registration
Configure(s) ==
    [s EXCEPT !.Resolution = "Daily",
              !.StartDate = <<2022, 2, 14>>,
              !.EndDate = <<2022, 2, 18>>,
              !.Cash = StartingCash,
              !.Universes = Append(@, QuiverUniverse)]

\* self.History(universe, TimeSpan(1, 0, 0, 0)): the request as the host sees it
RequestHistory(s, universe) ==
    [s EXCEPT !.HistoryRequests = Append(@, [universe |-> universe, span |-> <<1, 0, 0, 0>>])]

\* a mutant: a batch of exactly MinHistoricalRecords data is rejected too
ValidateOffByOne(history) ==
    IF Len(history) # ExpectedHistoryCount
    THEN "Unexpected history count " \o ToString(Len(history)) \o "! Expected 1"
    ELSE IF \E k \in 1..Len(history) : Len(history[k]) <= MinHistoricalRecords
         THEN "Unexpected historical universe data!"
         ELSE NoError

\* lines 29-34: the ValueError raised for a History response, or NoError
Validate(history) ==
    IF Len(history) # ExpectedHistoryCount
    THEN "Unexpected history count " \o ToString(Len(history)) \o "! Expected 1"
    ELSE IF \E k \in 1..Len(history) : Len(history[k]) < MinHistoricalRecords
         THEN "Unexpected historical universe data!"
         ELSE NoError

\* a mutant: the response is validated first and a failure leaves the object untouched
InitializeValidateFirst(s, history) ==
    IF Validate(history) # NoError
    THEN [self |-> s, raised |-> Validate(history)]
    ELSE [self |-> RequestHistory(Configure(s), QuiverUniverse), raised |-> NoError]

\* Initialize(self), given the host's answer to the History request
Initialize(s, history) ==
    LET configured == Configure(s)
        universe == configured.Universes[Len(configured.Universes)]
        requested == RequestHistory(configured, universe)
    IN  [self |-> requested, raised |-> Validate(history)]

(* --------------------------- UniverseSelection ------------------------- *)

\* a mutant: rank and mentions change places in the line
LogLineSwapped(datum) ==
    datum.Symbol \o "," \o ToString(datum.Rank) \o "," \o
    ToString(datum.Mentions) \o "," \o ToString(datum.Sentiment)

\* f"{datum.Symbol},{datum.Mentions},{datum.Rank},{datum.Sentiment}"
LogLine(datum) ==
    datum.Symbol \o "," \o ToString(datum.Mentions) \o "," \o
    ToString(datum.Rank) \o "," \o ToString(datum.Sentiment)

\* a mutant: the mentions bound is not strict
SelectionCriteriaLoose(d) == d.Mentions >= MentionsThreshold /\ d.Rank < RankThreshold

\* d.Mentions > 100 and d.Rank < 100
SelectionCriteria(d) == d.Mentions > MentionsThreshold /\ d.Rank < RankThreshold

\* for datum in data: self.Log(...)
RECURSIVE LogEach(_, _)
LogEach(s, data) ==
    IF data = <<>> THEN s ELSE LogEach(Log(s, LogLine(Head(data))), Tail(data))

\* [d.Symbol for d in data if ...]
RECURSIVE Comprehension(_)
Comprehension(data) ==
    IF data = <<>> THEN <<>>
    ELSE IF SelectionCriteria(Head(data))
         THEN <<Head(data).Symbol>> \o Comprehension(Tail(data))
         ELSE Comprehension(Tail(data))

RECURSIVE Dedup(_)
Dedup(syms) ==
    IF syms = <<>> THEN <<>>
    ELSE LET rest == Dedup(SubSeq(syms, 1, Len(syms) - 1))
             x == syms[Len(syms)]
         IN  IF \E i \in 1..Len(rest) : rest[i] = x THEN rest ELSE Append(rest, x)

\* a mutant: the selection is returned as distinct symbols
UniverseSelectionDistinct(s, data) ==
    [self |-> LogEach(s, data), data |-> data, ret |-> Dedup(Comprehension(data)),
     raised |-> NoError]

\* a mutant: the symbols already logged by earlier calls are left out
UniverseSelectionNewOnly(s, data) ==
    [self |-> LogEach(s, data), data |-> data,
     ret |-> SelectSeq(Comprehension(data),
                       LAMBDA sym : \A i \in 1..Len(s.log) :
                                      \A d \in Datum : d.Symbol = sym => s.log[i] # LogLine(d)),
     raised |-> NoError]

\* a mutant: a default symbol is selected when nothing qualifies
UniverseSelectionDefault(s, data) ==
    [self |-> LogEach(s, data), data |-> data,
     ret |-> IF Comprehension(data) = <<>> /\ data # <<>> THEN <<"SPY">> ELSE Comprehension(data),
     raised |-> NoError]

\* a mutant: an empty batch is treated as an error
UniverseSelectionRejectEmpty(s, data) ==
    IF data = <<>>
    THEN [self |-> Log(s, "no data"), data |-> data, ret |-> <<>>, raised |-> "ValueError"]
    ELSE [self |-> LogEach(s, data), data |-> data, ret |-> Comprehension(data),
          raised |-> NoError]

\* UniverseSelection(self, data): the object and the argument after the call,
\* the value returned, and the exception raised (the body raises none)
UniverseSelection(s, data) ==
    [self |-> LogEach(s, data), data |-> data, ret |-> Comprehension(data),
     raised |-> NoError]

(* -------------------------- OnSecuritiesChanged ------------------------ *)

RECURSIVE Join(_)
Join(syms) ==
    IF syms = <<>> THEN ""
    ELSE IF Len(syms) = 1 THEN syms[1]
         ELSE syms[1] \o "," \o Join(Tail(syms))

\* changes.ToString(): the host's rendering of a change-set
ChangesToString(changes) ==
    IF changes.added = <<>> /\ changes.removed = <<>>
    THEN "SecurityChanges: None"
    ELSE "SecurityChanges: Added: " \o Join(changes.added) \o
         " Removed: " \o Join(changes.removed)

\* a mutant: the added and the removed securities are logged on separate lines
OnSecuritiesChangedTwoLines(s, changes) ==
    [self |-> Log(Log(s, "Added: " \o Join(changes.added)),
                  "Removed: " \o Join(changes.removed)),
     changes |-> changes]

\* OnSecuritiesChanged(self, changes)
OnSecuritiesChanged(s, changes) ==
    [self |-> Log(s, ChangesToString(changes)), changes |-> changes]


(* ------------------- the hooks as the host calls them ------------------ *)

NoChanges == [added |-> <<>>, removed |-> <<>>]

\* what the host saw of its latest call: the hook, the object before the call,
\* the arguments before and after it, the value returned, the exception raised
NoCall ==
    [op |-> "none", before |-> Constructed, history |-> <<>>,
     data |-> <<>>, dataAfter |-> <<>>, ret |-> <<>>,
     changes |-> NoChanges, changesAfter |-> NoChanges, raised |-> NoError]

Invocations == {1, 2}

Init ==
    /\ self = Constructed
    /\ status = "constructed"
    /\ last = NoCall
    /\ pc = [p \in Invocations |-> "idle"]
    /\ arg = [p \in Invocations |-> <<>>]
    /\ frame = [p \in Invocations |-> [data |-> <<>>, i |-> 1, acc |-> <<>>]]
    /\ ret = [p \in Invocations |-> <<>>]
    /\ logBy = <<>>

\* the host calls Initialize once; an exception aborts the start
CallInitialize ==
    /\ status = "constructed"
    /\ \E history \in Histories :
         LET r == Initialize(self, history)
         IN  /\ self' = r.self
             /\ status' = IF r.raised = NoError THEN "running" ELSE "aborted"
             /\ last' = [NoCall EXCEPT !.op = "Initialize", !.before = self,
                                       !.history = history, !.raised = r.raised]
    /\ UNCHANGED <<pc, arg, frame, ret, logBy>>

\* the host calls UniverseSelection with the day's batch; an exception
\* escaping the hook would end the run
CallUniverseSelection ==
    /\ status = "running"
    /\ \E data \in Batches :
         /\ Len(self.log) + Len(data) <= MaxLog
         /\ LET r == UniverseSelection(self, data)
            IN  /\ self' = r.self
                /\ status' = IF r.raised = NoError THEN status ELSE "faulted"
                /\ last' = [NoCall EXCEPT !.op = "UniverseSelection", !.before = self,
                                          !.data = data, !.dataAfter = r.data,
                                          !.ret = r.ret, !.raised = r.raised]
    /\ UNCHANGED <<pc, arg, frame, ret, logBy>>

\* the host calls OnSecuritiesChanged when the active set changed
CallOnSecuritiesChanged ==
    /\ status = "running"
    /\ Len(self.log) < MaxLog
    /\ \E changes \in ChangeSets :
         LET r == OnSecuritiesChanged(self, changes)
         IN  /\ self' = r.self
             /\ last' = [NoCall EXCEPT !.op = "OnSecuritiesChanged", !.before = self,
                                       !.changes = changes, !.changesAfter = r.changes]
    /\ UNCHANGED <<status, pc, arg, frame, ret, logBy>>

Next ==
    \/ CallInitialize
    \/ CallUniverseSelection
    \/ CallOnSecuritiesChanged

Spec == Init /\ [][Next]_vars

(* ---------- UniverseSelection statement by statement, two callers ------ *)

\* the data of the step-level batches
StepData ==
    {[Symbol |-> "GME", Mentions |-> 101, Rank |-> 99, Sentiment |-> -5],
     [Symbol |-> "AMC", Mentions |-> 100, Rank |-> 99, Sentiment |-> -5],
     [Symbol |-> "GME", Mentions |-> 101, Rank |-> 100, Sentiment |-> -5]}
StepBatches == SeqsUpTo(StepData, MaxStepBatch)

\* the object a successful Initialize leaves
Initialized == Initialize(Constructed, <<HistoricalBatch(MinHistoricalRecords)>>).self

\* a mutant: the loop state is kept on the object, one copy for all invocations
SharedFrame(p) == 1

\* data, the loop position and the list under construction are locals of the
\* invocation: each invocation has a frame of its own
Frame(p) == p

StepInit ==
    /\ self = Initialized
    /\ status = "running"
    /\ last = NoCall
    /\ pc = [p \in Invocations |-> "idle"]
    /\ arg = [p \in Invocations |-> <<>>]
    /\ frame = [p \in Invocations |-> [data |-> <<>>, i |-> 1, acc |-> <<>>]]
    /\ ret = [p \in Invocations |-> <<>>]
    /\ logBy = <<>>

\* def UniverseSelection(self, data): the call binds data
StepCall(p) ==
    /\ pc[p] = "idle"
    /\ \E data \in StepBatches :
         /\ arg' = [arg EXCEPT ![p] = data]
         /\ frame' = [frame EXCEPT ![Frame(p)] = [data |-> data, i |-> 1, acc |-> <<>>]]
    /\ pc' = [pc EXCEPT ![p] = "for"]
    /\ UNCHANGED <<self, status, last, ret, logBy>>

\* one pass of the for loop: self.Log of the next datum (the host's Log is
\* taken as one atomic append to its sink)
StepLog(p) ==
    LET f == frame[Frame(p)]
    IN  /\ pc[p] = "for"
        /\ f.i <= Len(f.data)
        /\ self' = Log(self, LogLine(f.data[f.i]))
        /\ logBy' = Append(logBy, p)
        /\ frame' = [frame EXCEPT ![Frame(p)].i = f.i + 1]
        /\ UNCHANGED <<status, last, pc, arg, ret>>

\* the for loop is exhausted: the comprehension starts a fresh iteration
StepEndFor(p) ==
    LET f == frame[Frame(p)]
    IN  /\ pc[p] = "for"
        /\ f.i > Len(f.data)
        /\ frame' = [frame EXCEPT ![Frame(p)].i = 1, ![Frame(p)].acc = <<>>]
        /\ pc' = [pc EXCEPT ![p] = "comprehension"]
        /\ UNCHANGED <<self, status, last, arg, ret, logBy>>

\* one pass of the comprehension: the datum's symbol is kept if it qualifies
StepComprehension(p) ==
    LET f == frame[Frame(p)]
    IN  /\ pc[p] = "comprehension"
        /\ f.i <= Len(f.data)
        /\ frame' = [frame EXCEPT
                       ![Frame(p)].acc = IF SelectionCriteria(f.data[f.i])
                                         THEN Append(f.acc, f.data[f.i].Symbol)
                                         ELSE f.acc,
                       ![Frame(p)].i = f.i + 1]
        /\ UNCHANGED <<self, status, last, pc, arg, ret, logBy>>

\* return: the list is handed to the caller
StepReturn(p) ==
    LET f == frame[Frame(p)]
    IN  /\ pc[p] = "comprehension"
        /\ f.i > Len(f.data)
        /\ ret' = [ret EXCEPT ![p] = f.acc]
        /\ pc' = [pc EXCEPT ![p] = "done"]
        /\ UNCHANGED <<self, status, last, arg, frame, logBy>>

StepNext ==
    \E p \in Invocations :
        \/ StepCall(p)
        \/ StepLog(p)
        \/ StepEndFor(p)
        \/ StepComprehension(p)
        \/ StepReturn(p)

SpecSteps == StepInit /\ [][StepNext]_vars

(* ------------------------------ properties ----------------------------- *)

InSeq(x, seq) == \E k \in 1..Len(seq) : seq[k] = x

Selected == last.op = "UniverseSelection"

\* the positions of the batch whose datum has more than 100 mentions and a
\* rank under 100
Qualifying(data) == {i \in 1..Len(data) : data[i].Mentions > 100 /\ data[i].Rank < 100}

\* C1 as stated: after UniverseSelection(data), the symbol of a datum is in the
\* result if and only if that very datum has Mentions > 100 and Rank < 100.
C1_AsStated ==
    Selected =>
        \A i \in 1..Len(last.data) :
            InSeq(last.data[i].Symbol, last.ret) <=> i \in Qualifying(last.data)

\* C1 amended: after UniverseSelection(data), the symbol of a datum is in the
\* result if and only if some datum of the batch carrying that symbol has
\* Mentions > 100 and Rank < 100 (both strict); in a batch without a repeated
\* symbol that datum is the datum itself.
C1_SymbolSelectedIffSomeDatumQualifies ==
    Selected =>
        /\ \A i \in 1..Len(last.data) :
              InSeq(last.data[i].Symbol, last.ret) <=>
                 \E j \in Qualifying(last.data) : last.data[j].Symbol = last.data[i].Symbol
        /\ (\A i, j \in 1..Len(last.data) : i # j => last.data[i].Symbol # last.data[j].Symbol)
              => \A i \in 1..Len(last.data) :
                    InSeq(last.data[i].Symbol, last.ret) <=> i \in Qualifying(last.data)

\* a batch at the bounds: 101 mentions at rank 99 selected; the same symbol
\* again with 100 mentions, itself not qualifying; another symbol with 101
\* mentions at rank 100 not selected
C1_Witness ==
    /\ Selected
    /\ Len(last.data) = 3
    /\ last.data[1].Mentions = 101 /\ last.data[1].Rank = 99
    /\ last.data[2].Symbol = last.data[1].Symbol
    /\ last.data[2].Mentions = 100 /\ last.data[2].Rank = 99
    /\ last.data[3].Symbol # last.data[1].Symbol
    /\ last.data[3].Mentions = 101 /\ last.data[3].Rank = 100
    /\ last.ret = <<last.data[1].Symbol>>

\* C2: Initialize raises exactly when the History response holds a number of
\* batches other than 1, or one batch of fewer than 100 data; the start is
\* aborted exactly when it raises, and one batch of 100 or more data starts
\* the run.
C2_StartupValidation ==
    last.op = "Initialize" =>
        LET n == Len(last.history)
            bad == n # 1 \/ (n = 1 /\ Len(last.history[1]) < 100)
        IN  /\ (last.raised # NoError) <=> bad
            /\ (status = "aborted") <=> bad
            /\ (status = "running") <=> (n = 1 /\ Len(last.history[1]) >= 100)

\* one batch of exactly 100 data: the run starts
C2_Witness ==
    /\ last.op = "Initialize"
    /\ Len(last.history) = 1
    /\ Len(last.history[1]) = 100
    /\ status = "running"

\* C3: every symbol UniverseSelection returns is the symbol of a datum of the
\* batch it was called with.
C3_NoInventedSymbols ==
    Selected =>
        \A k \in 1..Len(last.ret) :
            \E i \in 1..Len(last.data) : last.data[i].Symbol = last.ret[k]

\* a batch of which one symbol is returned and another is not
C3_Witness ==
    /\ Selected
    /\ last.ret # <<>>
    /\ \E i \in 1..Len(last.data) : ~InSeq(last.data[i].Symbol, last.ret)

\* C4: whatever the host called before, UniverseSelection(data) returns what it
\* returns as the first call on a freshly initialized object.
C4_HistoryIndependent ==
    Selected => last.ret = UniverseSelection(Initialized, last.data).ret

\* the same non-empty batch was selected from twice in a row, with a result
C4_Witness ==
    /\ Selected
    /\ last.ret # <<>>
    /\ Len(last.before.log) = Len(last.data)
    /\ self.log = last.before.log \o last.before.log

\* C5: UniverseSelection raises nothing and leaves the run going, also for the
\* empty batch and for a batch of which nothing qualifies; for the empty batch
\* it returns the empty list and logs nothing.
C5_NoErrorOutcome ==
    /\ status # "faulted"
    /\ Selected =>
          /\ last.raised = NoError
          /\ status = "running"
          /\ last.data = <<>> => (last.ret = <<>> /\ self.log = last.before.log)

\* the empty batch was selected from after other lines had been logged
C5_Witness ==
    /\ Selected
    /\ last.data = <<>>
    /\ last.ret = <<>>
    /\ last.before.log # <<>>
    /\ status = "running"

\* the lines an invocation has logged so far, in log order
RECURSIVE LinesOf(_, _, _)
LinesOf(p, log, by) ==
    IF by = <<>> THEN <<>>
    ELSE (IF Head(by) = p THEN <<Head(log)>> ELSE <<>>) \o LinesOf(p, Tail(log), Tail(by))

IsPrefix(a, b) == Len(a) <= Len(b) /\ a = SubSeq(b, 1, Len(a))

\* symbol, mentions, rank, sentiment, separated by commas
FieldsLine(r) ==
    r.Symbol \o "," \o ToString(r.Mentions) \o "," \o ToString(r.Rank) \o "," \o
    ToString(r.Sentiment)

\* C6: the lines an invocation logs are, in the order of its batch, one line
\* per datum (qualifying or not) of symbol, mentions, rank, sentiment; none is
\* missing once the comprehension starts, hence when the result is returned.
C6_OneLinePerDatumBeforeReturn ==
    \A p \in Invocations :
        LET mine == LinesOf(p, self.log, logBy)
            want == [k \in 1..Len(arg[p]) |-> FieldsLine(arg[p][k])]
        IN  /\ IsPrefix(mine, want)
            /\ pc[p] \in {"comprehension", "done"} => mine = want
            /\ pc[p] # "done" => ret[p] = <<>>

\* an invocation returned one of the two symbols of its batch and logged both
C6_Witness ==
    \E p \in Invocations :
        /\ pc[p] = "done"
        /\ Len(arg[p]) = 2
        /\ Len(ret[p]) = 1
        /\ Len(LinesOf(p, self.log, logBy)) = 2

\* C7: UniverseSelection leaves its batch and every field of the object but
\* the log as they were, and only appends to the log; OnSecuritiesChanged
\* leaves the change-set and every field but the log as they were and appends
\* exactly one line, the string form of the change-set.  The settings of
\* Initialize are those fields.
C7_OnlyTheLogChanges ==
    /\ Selected =>
          /\ last.dataAfter = last.data
          /\ self = [last.before EXCEPT !.log = self.log]
          /\ IsPrefix(last.before.log, self.log)
          /\ Len(self.log) = Len(last.before.log) + Len(last.data)
    /\ last.op = "OnSecuritiesChanged" =>
          /\ last.changesAfter = last.changes
          /\ self = [last.before EXCEPT !.log = self.log]
          /\ self.log = Append(last.before.log, ChangesToString(last.changes))
    /\ last.op \in {"UniverseSelection", "OnSecuritiesChanged"} =>
          /\ self.Resolution = "Daily"
          /\ self.StartDate = <<2022, 2, 14>>
          /\ self.EndDate = <<2022, 2, 18>>
          /\ self.Cash = 100000
          /\ self.Universes = <<QuiverUniverse>>

\* a change-set with added securities was reported after earlier lines
C7_Witness ==
    /\ last.op = "OnSecuritiesChanged"
    /\ last.changes.added # <<>>
    /\ last.before.log # <<>>
    /\ Len(self.log) = Len(last.before.log) + 1

\* C8: with two invocations interleaved, each returns what UniverseSelection
\* returns for its batch when called alone, and its lines are, in order, the
\* lines that call alone logs.
C8_InterleavingChangesNothing ==
    \A p \in Invocations :
        LET alone == UniverseSelection(Initialized, arg[p])
            mine == LinesOf(p, self.log, logBy)
        IN  /\ IsPrefix(mine, alone.self.log)
            /\ pc[p] = "done" => (ret[p] = alone.ret /\ mine = alone.self.log)

\* both invocations returned, on different batches with different results,
\* their lines alternating in the log
C8_Witness ==
    /\ pc[1] = "done" /\ pc[2] = "done"
    /\ arg[1] # arg[2]
    /\ ret[1] # ret[2]
    /\ logBy = <<1, 2, 1, 2>>

\* C9: the result holds, in batch order, the symbol of each qualifying datum,
\* once per datum: as long as the number of qualifying data, entry k the
\* symbol of the k-th qualifying datum.
C9_OneEntryPerQualifyingDatum ==
    Selected =>
        LET q == Qualifying(last.data)
        IN  /\ Len(last.ret) = Cardinality(q)
            /\ \A k \in 1..Len(last.ret) :
                  \E i \in q : /\ Cardinality({j \in q : j < i}) = k - 1
                               /\ last.ret[k] = last.data[i].Symbol

\* one symbol on three data, two qualifying and one not: returned twice
C9_Witness ==
    /\ Selected
    /\ Len(last.data) = 3
    /\ \A i \in 1..3 : last.data[i].Symbol = last.data[1].Symbol
    /\ Qualifying(last.data) = {1, 3}
    /\ last.ret = <<last.data[1].Symbol, last.data[1].Symbol>>

\* C10: when the start is aborted the settings, the universe registration and
\* the History request for that universe are in place; a response of a number
\* of batches other than 1 raises the history-count error, and the
\* universe-data error is raised only for a response of one batch.
C10_ValidationLastNothingRolledBack ==
    status = "aborted" =>
        /\ self.Resolution = "Daily"
        /\ self.StartDate = <<2022, 2, 14>>
        /\ self.EndDate = <<2022, 2, 18>>
        /\ self.Cash = 100000
        /\ self.Universes = <<QuiverUniverse>>
        /\ self.HistoryRequests = <<[universe |-> QuiverUniverse, span |-> <<1, 0, 0, 0>>]>>
        /\ Len(last.history) # 1 =>
              last.raised = "Unexpected history count " \o ToString(Len(last.history))
                               \o "! Expected 1"
        /\ last.raised = "Unexpected historical universe data!" => Len(last.history) = 1

\* aborted on two batches, one of them short: the history-count error
C10_Witness ==
    /\ status = "aborted"
    /\ Len(last.history) = 2
    /\ Len(last.history[1]) < 100
    /\ last.raised = "Unexpected history count 2! Expected 1"
    /\ self.Cash = 100000

====
